---- MODULE Spec2Model ----
(***************************************************************************)
(* The two license-header rewriters of scripts/:                           *)
(*   update-license-headers.py  (AGPL -> MIT, regular expressions)         *)
(*   update_license_headers.py  (MIT -> AGPL, literal strings)             *)
(*                                                                         *)
(* Text.  A file's content is a sequence of symbols; the text it denotes   *)
(* is the concatenation of the symbols.  A symbol is one of                *)
(*   "/" "*" "\n" " "            the characters the patterns look at,      *)
(*   "CIV.IQ" "Copyright" "copyright" "COPYRIGHT" "'use client'"           *)
(*   "GNU Affero General Public License"      the words they look for,     *)
(*   PAD                         a run of WINDOW filler characters,        *)
(*   any other string            a stretch of other text: it holds no "*", *)
(*                               no line break and none of the words, and  *)
(*                               neither starts nor ends with white space. *)
(* On such sequences a pattern matches the text exactly where the          *)
(* operators below match the symbols.                                      *)
(***************************************************************************)
EXTENDS Naturals, Integers, Sequences, FiniteSets, TLC

GNU == "GNU Affero General Public License"
CIVIQ == "CIV.IQ"
USE_CLIENT == "'use client'"
PAD == "<filler>"

\* update_license_headers.py: content[:1000]
WINDOW == 1000

\* Characters a symbol stands for.
Width(sym) == IF sym = PAD THEN WINDOW ELSE Len(sym)

\* update-license-headers.py: NEW_HEADER
NEW_HEADER ==
  << "/", "*", "*", "\n",
     " ", "*", " ", "Copyright", " ", "(c) 2019-2025 Mark Sandford", "\n",
     " ", "*", " ", "Licensed under the MIT License. See LICENSE and NOTICE files.", "\n",
     " ", "*", "/" >>

\* update_license_headers.py: OLD_MIT_HEADER
OLD_MIT_HEADER ==
  << "/", "*", "*", "\n",
     " ", "*", " ", "CIV.IQ", " ", "- Civic Information", " ", " ", "\n",
     " ", "*", " ", "Copyright", " ", "(c) 2025", " ", "CIV.IQ", " ", "\n",
     " ", "*", " ", "Licensed under MIT License", "\n",
     " ", "*", " ", "Built with public government data", "\n",
     " ", "*", "/" >>

\* update_license_headers.py: NEW_AGPL_HEADER
NEW_AGPL_HEADER ==
  << "/", "*", "\n",
     " ", "*", " ", "CIV.IQ", " ", "- Civic Information Hub", "\n",
     " ", "*", " ", "Copyright", " ", "(C) 2025 Mark Sandford", "\n",
     " ", "*", " ", "\n",
     " ", "*", " ", "This program is free software: you can redistribute it and/or modify", "\n",
     " ", "*", " ", "it under the terms of the", " ", "GNU Affero General Public License", " ", "as published by", "\n",
     " ", "*", " ", "the Free Software Foundation, either version 3 of the License, or", "\n",
     " ", "*", " ", "(at your option) any later version.", "\n",
     " ", "*", "\n",
     " ", "*", " ", "This program is distributed in the hope that it will be useful,", "\n",
     " ", "*", " ", "but WITHOUT ANY WARRANTY; without even the implied warranty of", "\n",
     " ", "*", " ", "MERCHANTABILITY or FITNESS FOR A PARTICULAR PURPOSE. See the", "\n",
     " ", "*", " ", "GNU Affero General Public License", " ", "for more details.", "\n",
     " ", "*", "\n",
     " ", "*", " ", "You should have received a copy of the", " ", "GNU Affero General Public License", "\n",
     " ", "*", " ", "along with this program. If not, see <https://www.gnu.org/licenses/>.", "\n",
     " ", "*", "\n",
     " ", "*", " ", "For commercial licensing inquiries: mark@marksandford.dev", "\n",
     " ", "*", "/" >>

\* '\n\n', the blank line both scripts put after a header
NLNL == << "\n", "\n" >>

(***************************************************************************)
(* Regular expressions (Python re, DOTALL): a pattern is an operator of    *)
(* (s, i) giving the index just past the match that starts at i, or 0      *)
(* when the pattern does not match at i.                                   *)
(***************************************************************************)

\* \s
IsWs(ch) == ch \in {" ", "\n"}

\* the first index from j on that holds no white space (the end of a greedy \s*)
RECURSIVE SkipWs(_, _)
SkipWs(s, j) == IF j <= Len(s) /\ IsWs(s[j]) THEN SkipWs(s, j + 1) ELSE j

\* the last line break in s[j .. e-1], or 0
RECURSIVE LastNl(_, _, _)
LastNl(s, j, e) ==
  IF e <= j THEN 0
  ELSE IF s[e - 1] = "\n" THEN e - 1
  ELSE LastNl(s, j, e - 1)

\* \s*\n at j, greedy: past the last line break of the white space at j
WsNl(s, j) ==
  LET k == LastNl(s, j, SkipWs(s, j))
  IN  IF k = 0 THEN 0 ELSE k + 1

\* \*/\s*\n at q
CloseAt(s, q) ==
  IF q + 1 <= Len(s) /\ s[q] = "*" /\ s[q + 1] = "/" THEN WsNl(s, q + 2) ELSE 0

\* the least element of a set of indices, 0 for the empty set
First(S) == IF S = {} THEN 0 ELSE CHOOSE m \in S : \A k \in S : m <= k

\* .*?\*/\s*\n from q: past the first place the close matches
FirstClose(s, q) ==
  LET at == First({ k \in q..Len(s) : CloseAt(s, k) > 0 })
  IN  IF at = 0 THEN 0 ELSE CloseAt(s, at)

\* .*?w from j for a word w of syms: the first index from j on holding one, or 0
Find(s, syms, j) == First({ k \in j..Len(s) : s[k] \in syms })

\* [Cc]opyright
CcOPYRIGHT == {"Copyright", "copyright"}

\* r'/\*\s*\n\s*\*\s*CIV\.IQ.*?\n.*?GNU Affero General Public License.*?\*/\s*\n'
AGPL_PATTERN(s, i) ==
  IF i + 1 <= Len(s) /\ s[i] = "/" /\ s[i + 1] = "*"
  THEN LET e1 == SkipWs(s, i + 2)
           okStar == LastNl(s, i + 2, e1) > 0 /\ e1 <= Len(s) /\ s[e1] = "*"
           e2 == SkipWs(s, e1 + 1)
           okCiv == okStar /\ e2 <= Len(s) /\ s[e2] = CIVIQ
           n1 == IF okCiv THEN Find(s, {"\n"}, e2 + 1) ELSE 0
           g1 == IF n1 = 0 THEN 0 ELSE Find(s, {GNU}, n1 + 1)
       IN  IF g1 = 0 THEN 0 ELSE FirstClose(s, g1 + 1)
  ELSE 0

\* r'/\*\*?\s*\n.*?[Cc]opyright.*?\*/\s*\n'
COPYRIGHT_PATTERN(s, i) ==
  IF i + 1 <= Len(s) /\ s[i] = "/" /\ s[i + 1] = "*"
  THEN LET j == IF i + 2 <= Len(s) /\ s[i + 2] = "*" THEN i + 3 ELSE i + 2
           o == WsNl(s, j)
           c == IF o = 0 THEN 0 ELSE Find(s, CcOPYRIGHT, o)
       IN  IF c = 0 THEN 0 ELSE FirstClose(s, c + 1)
  ELSE 0

MatchEnd(pat, s, i) ==
  IF pat = "AGPL_PATTERN" THEN AGPL_PATTERN(s, i) ELSE COPYRIGHT_PATTERN(s, i)

\* pattern.search(s) from index i on: where the leftmost match starts, or 0
Search(pat, s, i) == First({ k \in i..Len(s) : MatchEnd(pat, s, k) > 0 })

\* pattern.sub(repl, s): every non-overlapping match, left to right, from index from on
RECURSIVE Sub(_, _, _, _)
Sub(pat, repl, s, from) ==
  LET i == Search(pat, s, from)
  IN  IF i = 0 THEN SubSeq(s, from, Len(s))
      ELSE SubSeq(s, from, i - 1) \o repl \o Sub(pat, repl, s, MatchEnd(pat, s, i))

(***************************************************************************)
(* Literal strings (str.__contains__, str.replace, slicing)                *)
(***************************************************************************)

\* h occurs in s at index i
OccursAt(s, h, i) ==
  /\ i + Len(h) - 1 <= Len(s)
  /\ \A k \in 1..Len(h) : s[i + k - 1] = h[k]

\* s.find(h) from index i on: 0 when h does not occur
IndexOf(s, h, i) == First({ k \in i..Len(s) : OccursAt(s, h, k) })

\* h in s
Contains(s, h) == IndexOf(s, h, 1) > 0

\* s.replace(old, new, 1)
ReplaceFirst(s, old, new) ==
  LET i == IndexOf(s, old, 1)
  IN  IF i = 0 THEN s
      ELSE SubSeq(s, 1, i - 1) \o new \o SubSeq(s, i + Len(old), Len(s))

\* how many characters s[a .. b] stands for
RECURSIVE Chars(_, _, _)
Chars(s, a, b) ==
  IF a > b THEN 0
  ELSE IF a = b THEN Width(s[a])
  ELSE LET m == (a + b) \div 2 IN Chars(s, a, m) + Chars(s, m + 1, b)

\* w in content[:1000]: an occurrence of w ends within the first WINDOW characters
InWindow(s, w) == \E k \in 1..Len(s) : s[k] = w /\ Chars(s, 1, k) <= WINDOW

(***************************************************************************)
(* The per-file rewrites                                                   *)
(***************************************************************************)

\* Prepend with one line break for two
Prepend_OneLineBreak(header, content) == header \o << "\n" >> \o content

\* update-license-headers.py line 49, update_license_headers.py line 55:
\* header + '\n\n' + content
Prepend(header, content) == header \o NLNL \o content

\* update-license-headers.py, update_file: the content it computes
update_content(content) ==
  IF Search("AGPL_PATTERN", content, 1) > 0
  THEN Sub("AGPL_PATTERN", NEW_HEADER \o NLNL, content, 1)
  ELSE IF Search("COPYRIGHT_PATTERN", content, 1) > 0
  THEN Sub("COPYRIGHT_PATTERN", NEW_HEADER \o NLNL, content, 1)
  ELSE IF Len(content) > 0 /\ content[1] = USE_CLIENT
  THEN LET nl == Find(content, {"\n"}, 1)
           line0 == IF nl = 0 THEN content ELSE SubSeq(content, 1, nl - 1)
           rest == IF nl = 0 THEN << >> ELSE SubSeq(content, nl + 1, Len(content))
       IN  line0 \o NLNL \o NEW_HEADER \o NLNL \o rest
  ELSE Prepend(NEW_HEADER, content)

\* update_license_headers.py, process_file: the branch it takes
process_result(content) ==
  IF Contains(content, OLD_MIT_HEADER) THEN "replaced"
  ELSE IF ~InWindow(content, "Copyright") /\ ~InWindow(content, "copyright") THEN "added"
  ELSE "skipped"

\* update_license_headers.py, process_file: new_content (the content itself when skipped)
process_content(content) ==
  CASE process_result(content) = "replaced" -> ReplaceFirst(content, OLD_MIT_HEADER, NEW_AGPL_HEADER)
    [] process_result(content) = "added" -> Prepend(NEW_AGPL_HEADER, content)
    [] OTHER -> content

(***************************************************************************)
(* Paths.  A path, relative to the script's root, is a sequence of name    *)
(* pieces and "/" separators whose concatenation is the path string; its   *)
(* last piece is the suffix.  The names of the excluded directories occur  *)
(* in a path string exactly where they occur as pieces.                    *)
(***************************************************************************)

U == "update-license-headers.py"
P == "update_license_headers.py"

\* both scripts: extensions
extensions == << ".ts", ".tsx", ".js", ".jsx" >>

\* update-license-headers.py line 72
EXCLUDED_PARTS == {"node_modules", ".next", "dist", "build"}

\* any(part in str(filepath) for part in [...])
IsExcluded(path) == \E k \in 1..Len(path) : path[k] \in EXCLUDED_PARTS

\* root.rglob('*' + ext) yields path
Matches(path, ext) == Len(path) > 0 /\ path[Len(path)] = ext

\* the files of the tree, as added to it when the tree grows
SourcePaths ==
  << << "a", ".ts" >>,
     << "build", "/", "c", ".ts" >>,
     << "b", ".tsx" >>,
     << "re", "build", "/", "d", ".js" >>,
     << "node_modules", "/", "e", ".jsx" >>,
     << "lib", "/", "f", ".js" >> >>

\* a file no pattern of extensions matches
OtherPath == << "README", ".md" >>

\* pathlib's order (component by component) on the paths above, least first
PathOrder ==
  << OtherPath,
     << "a", ".ts" >>,
     << "b", ".tsx" >>,
     << "build", "/", "c", ".ts" >>,
     << "lib", "/", "f", ".js" >>,
     << "node_modules", "/", "e", ".jsx" >>,
     << "re", "build", "/", "d", ".js" >> >>

Rank(path) == CHOOSE k \in 1..Len(PathOrder) : PathOrder[k] = path

ExtIndex(path) == CHOOSE k \in 1..Len(extensions) : extensions[k] = path[Len(path)]

\* the sequences that hold every element of S once
Orders(S) ==
  { q \in [1..Cardinality(S) -> S] : \A a, b \in 1..Cardinality(S) : a # b => q[a] # q[b] }

(***************************************************************************)
(* What one call of the per-file function does with the content it read    *)
(***************************************************************************)

\* the content the script computes from the content it read
Computed(sc, content) ==
  IF sc = U THEN update_content(content) ELSE process_content(content)

\* WillWrite without the comparison, or in every branch
WillWrite_Always(sc, content) == TRUE

\* whether the script opens the file for writing:
\* update_file when content != original; process_file in its replaced and added branches
WillWrite(sc, content) ==
  IF sc = U THEN update_content(content) # content
  ELSE process_result(content) \in {"replaced", "added"}

\* what the call returns when nothing raises
Returned(sc, content) ==
  IF sc = U THEN (IF WillWrite(sc, content) THEN "True" ELSE "False")
  ELSE process_result(content)

\* what the call returns from its except clause
ReturnedOnError(sc) == IF sc = U THEN "False" ELSE "error"

\* except Exception: the call returns and main's loop goes on
OnException == "loop"

\* main's counters after a call that returned result
Counted(sc, c, result) ==
  IF sc = U
  THEN [c EXCEPT !.total_count = @ + 1,
                 !.updated_count = IF result = "True" THEN @ + 1 ELSE @]
  ELSE [c EXCEPT !.replaced = IF result = "replaced" THEN @ + 1 ELSE @,
                 !.added = IF result = "added" THEN @ + 1 ELSE @,
                 !.skipped = IF result = "skipped" THEN @ + 1 ELSE @,
                 !.errors = IF result = "error" THEN @ + 1 ELSE @]

ZeroCounters ==
  [replaced |-> 0, added |-> 0, skipped |-> 0, errors |-> 0,
   updated_count |-> 0, total_count |-> 0]

\* the status the process ends with: sys.exit(1) in update_license_headers.py when
\* errors > 0; update-license-headers.py returns from main
ExitStatus(sc, c) == IF sc = P /\ c.errors > 0 THEN 1 ELSE 0

(***************************************************************************)
(* Bounds                                                                  *)
(***************************************************************************)

\* source files in the tree of a run
MaxFiles == 3
\* pieces a file's content is put together from
MaxChunks == 3
\* runs in succession
MaxRuns == 2
\* symbols of the new content that reach the file before a write fails
MaxCut == 1

(***************************************************************************)
(* The inputs                                                              *)
(***************************************************************************)

CODE == "export const x = 1;"

\* what a file's content is put together from
Pieces ==
  { << "\n" >>, << CODE >>, << USE_CLIENT >>, << PAD >>,
    << "Copyright" >>, << "COPYRIGHT" >>,
    << "/", "*", "\n" >>, << "*", "/", "\n" >>,
    OLD_MIT_HEADER, NEW_AGPL_HEADER, NEW_HEADER }

\* the contents put together from exactly n pieces
RECURSIVE Cat(_)
Cat(n) == IF n = 0 THEN { << >> } ELSE { p \o c : p \in Pieces, c \in Cat(n - 1) }

Contents == UNION { Cat(n) : n \in 0..MaxChunks }

\* the contents of the files of a whole tree: no header, the marker and no
\* header, the MIT header of update-license-headers.py, the MIT header
\* update_license_headers.py looks for
RunContents ==
  { << CODE, "\n" >>,
    << USE_CLIENT, "\n", CODE, "\n" >>,
    NEW_HEADER \o NLNL \o << CODE, "\n" >>,
    OLD_MIT_HEADER \o << "\n", CODE, "\n" >> }

RunTree == { OtherPath } \cup { SourcePaths[k] : k \in 1..MaxFiles }

FilePath == SourcePaths[1]

(***************************************************************************)
(* State                                                                   *)
(***************************************************************************)

VARIABLES
  script,       \* the script that runs: U or P
  tree,         \* the paths of the files under the root
  fs,           \* tree -> the content stored in each file
  pc,           \* "start", "loop", "exited"
  files,        \* the paths main visits, in the order it visits them
  i,            \* the place in files of the next path
  counters,     \* main's counters
  exit_status,  \* the status the process ended with, once pc = "exited"
  run,          \* which run in succession this is
  orig,         \* history: tree -> the content stored when this run began
  opened_w,     \* history: the paths this run called open(path, 'w') on
  written,      \* history: the paths this run wrote in full
  visits,       \* history: tree -> how often this run called the per-file function
  failed,       \* history: the paths whose call raised in this run
  computed      \* history: path read -> the content computed from what was read

vars ==
  << script, tree, fs, pc, files, i, counters, exit_status, run,
     orig, opened_w, written, visits, failed, computed >>

Empty == [ p \in {} |-> << >> ]

Fresh(t, f) ==
  /\ tree = t
  /\ fs = f
  /\ orig = f
  /\ pc = "start"
  /\ files = << >>
  /\ i = 1
  /\ counters = ZeroCounters
  /\ exit_status = 0
  /\ run = 1
  /\ opened_w = {}
  /\ written = {}
  /\ visits = [ p \in t |-> 0 ]
  /\ failed = {}
  /\ computed = Empty

\* a run over a tree of several files
Init ==
  /\ script \in {U, P}
  /\ \E g \in [RunTree \ {OtherPath} -> RunContents] :
       Fresh(RunTree, g @@ (OtherPath :> << "readme" >>))

\* a run over a tree of one file
FileInit ==
  /\ script \in {U, P}
  /\ \E c \in Contents : Fresh({FilePath}, (FilePath :> c))

(***************************************************************************)
(* main                                                                    *)
(***************************************************************************)

\* the files some pattern of extensions matches
Enumerated == { p \in tree : \E k \in 1..Len(extensions) : Matches(p, extensions[k]) }

\* update_license_headers.py lines 76-80: files.sort()
\* update-license-headers.py lines 69-70: extension by extension, each rglob in
\* the order the file system gives
VisitOrders ==
  IF script = P
  THEN { q \in Orders(Enumerated) :
           \A a, b \in 1..Len(q) : a < b => Rank(q[a]) < Rank(q[b]) }
  ELSE { q \in Orders(Enumerated) :
           \A a, b \in 1..Len(q) : a < b => ExtIndex(q[a]) <= ExtIndex(q[b]) }

\* main up to its loop
Start ==
  /\ pc = "start"
  /\ files' \in VisitOrders
  /\ i' = 1
  /\ counters' = ZeroCounters
  /\ pc' = "loop"
  /\ UNCHANGED << script, tree, fs, exit_status, run, orig, opened_w, written,
                  visits, failed, computed >>

AtFile == pc = "loop" /\ i <= Len(files)

\* update-license-headers.py lines 72-73: continue
SkipExcluded ==
  /\ AtFile
  /\ script = U
  /\ IsExcluded(files[i])
  /\ i' = i + 1
  /\ UNCHANGED << script, tree, fs, pc, files, counters, exit_status, run, orig,
                  opened_w, written, visits, failed, computed >>

Visiting == AtFile /\ ~(script = U /\ IsExcluded(files[i]))

\* main's bookkeeping of one call of the per-file function
Called(f, result, raised) ==
  /\ counters' = Counted(script, counters, result)
  /\ visits' = [visits EXCEPT ![f] = @ + 1]
  /\ failed' = IF raised THEN failed \cup {f} ELSE failed
  /\ i' = i + 1
  /\ UNCHANGED << script, tree, files, exit_status, run, orig >>

\* the call reads, computes, writes when it has to, and returns
ProcessOk ==
  /\ Visiting
  /\ LET f == files[i]
         content == fs[f]
         new == Computed(script, content)
     IN  /\ computed' = (f :> new) @@ computed
         /\ IF WillWrite(script, content)
            THEN /\ fs' = [fs EXCEPT ![f] = new]
                 /\ opened_w' = opened_w \cup {f}
                 /\ written' = written \cup {f}
            ELSE UNCHANGED << fs, opened_w, written >>
         /\ pc' = "loop"
         /\ Called(f, Returned(script, content), FALSE)

\* open(path, 'r') or f.read() raises (the file cannot be opened or decoded)
ProcessReadError ==
  /\ Visiting
  /\ pc' = OnException
  /\ Called(files[i], ReturnedOnError(script), TRUE)
  /\ UNCHANGED << fs, opened_w, written, computed >>

\* open(path, 'w') raises: the file is left as it was
ProcessOpenWriteError ==
  /\ Visiting
  /\ LET f == files[i]
         content == fs[f]
     IN  /\ WillWrite(script, content)
         /\ computed' = (f :> Computed(script, content)) @@ computed
         /\ opened_w' = opened_w \cup {f}
         /\ pc' = OnException
         /\ Called(f, ReturnedOnError(script), TRUE)
         /\ UNCHANGED << fs, written >>

\* open(path, 'w') has truncated the file and f.write or the close raises: the
\* file holds the part of the new content that reached it
ProcessWriteError ==
  /\ Visiting
  /\ LET f == files[i]
         content == fs[f]
         new == Computed(script, content)
     IN  /\ WillWrite(script, content)
         /\ \E cut \in 0..MaxCut :
              /\ cut < Len(new)
              /\ fs' = [fs EXCEPT ![f] = SubSeq(new, 1, cut)]
         /\ computed' = (f :> new) @@ computed
         /\ opened_w' = opened_w \cup {f}
         /\ pc' = OnException
         /\ Called(f, ReturnedOnError(script), TRUE)
         /\ UNCHANGED written

\* main after its loop: the summary, and the exit
Finish ==
  /\ pc = "loop"
  /\ i > Len(files)
  /\ pc' = "exited"
  /\ exit_status' = ExitStatus(script, counters)
  /\ UNCHANGED << script, tree, fs, files, i, counters, run, orig, opened_w,
                  written, visits, failed, computed >>

\* the script is run again on the tree the run before left
Rerun ==
  /\ pc = "exited"
  /\ run < MaxRuns
  /\ run' = run + 1
  /\ pc' = "start"
  /\ orig' = fs
  /\ files' = << >>
  /\ i' = 1
  /\ counters' = ZeroCounters
  /\ exit_status' = 0
  /\ opened_w' = {}
  /\ written' = {}
  /\ visits' = [ p \in tree |-> 0 ]
  /\ failed' = {}
  /\ computed' = Empty
  /\ UNCHANGED << script, tree, fs >>

Next ==
  \/ Start
  \/ SkipExcluded
  \/ ProcessOk
  \/ ProcessReadError
  \/ ProcessOpenWriteError
  \/ ProcessWriteError
  \/ Finish

\* one run of a script over a tree, with the failures the file system can give
Spec == Init /\ [][Next]_vars

\* main's loop takes its next path, whatever the call did
Iterate == AtFile /\ i' = i + 1

\* the same, with main running on to its end: nothing in it waits, so it
\* reaches its loop, each next path of the loop, and its summary
FairSpec == Init /\ [][Next]_vars /\ WF_vars(Start) /\ WF_i(Iterate) /\ WF_vars(Finish)

FileNext ==
  \/ Start
  \/ ProcessOk
  \/ Finish
  \/ Rerun

\* runs in succession over one file, nothing failing
FileSpec == FileInit /\ [][FileNext]_vars

(***************************************************************************)
(* The claims                                                              *)
(***************************************************************************)

Exited == pc = "exited"

\* the one file of FileSpec: what the first run read, what it left
FirstRunDone == run = 1 /\ Exited /\ tree = {FilePath}
Before == orig[FilePath]
After == fs[FilePath]

\* the header the script puts in
Replacement == IF script = U THEN NEW_HEADER ELSE NEW_AGPL_HEADER

\* Variant A occurs in s: AGPL_PATTERN matches (U), OLD_MIT_HEADER occurs (P)
HasVariantA(s) ==
  IF script = U THEN Search("AGPL_PATTERN", s, 1) > 0 ELSE Contains(s, OLD_MIT_HEADER)

\* a structured header matcher fires on s
MatcherFires(s) ==
  IF script = U
  THEN Search("AGPL_PATTERN", s, 1) > 0 \/ Search("COPYRIGHT_PATTERN", s, 1) > 0
  ELSE Contains(s, OLD_MIT_HEADER)

\* a copyright word lies in the first WINDOW characters of s
CopyrightInWindow(s) == InWindow(s, "Copyright") \/ InWindow(s, "copyright")

\* how often h occurs in s
Occurrences(s, h) == Cardinality({ k \in 1..Len(s) : OccursAt(s, h, k) })

StartsWithMarker(s) == Len(s) > 0 /\ s[1] = USE_CLIENT

\* a block comment opens at a
IsOpener(s, a) == a + 1 <= Len(s) /\ s[a] = "/" /\ s[a + 1] = "*"

\* where the first close after the opener at a starts, or 0
CloseOf(s, a) == First({ q \in (a + 2)..(Len(s) - 1) : s[q] = "*" /\ s[q + 1] = "/" })

AnyCaseCopyright == {"Copyright", "copyright", "COPYRIGHT"}

\* the openers of the closed block comments of s that hold the word copyright
CopyrightBlocks(s) ==
  { a \in 1..Len(s) :
      /\ IsOpener(s, a)
      /\ CloseOf(s, a) > 0
      /\ \E k \in (a + 2)..(CloseOf(s, a) - 1) : s[k] \in AnyCaseCopyright }

\* C1: a second run in succession leaves every file as the first run left it
\* and opens none for writing.
C1_Idempotent == (run >= 2 /\ Exited) => (fs = orig /\ opened_w = {})

\* C2: a run opens a file for writing exactly when the content it computed
\* differs from the content it read; a file it did not read, or whose rewrite
\* gives the same text, it never opens; and every write it completes stores a
\* content other than the one that was there.
C2_WriteIffChanged ==
  /\ \A p \in DOMAIN computed : (p \in opened_w) <=> (computed[p] # orig[p])
  /\ \A p \in tree \ DOMAIN computed : p \notin opened_w
  /\ \A p \in written : p \in opened_w /\ fs[p] # orig[p] /\ fs[p] = computed[p]

C2_Witness ==
  /\ Exited
  /\ written # {}
  /\ \E p \in DOMAIN computed : p \notin opened_w /\ fs[p] = orig[p]

\* C3: the exit status of a run is non-zero exactly when the call for some
\* file raised, for both scripts.
C3_ExitStatus == Exited => ((exit_status # 0) <=> (failed # {}))

\* every file main has to process: the enumerated ones, less the ones
\* update-license-headers.py skips
ToProcess == { p \in Enumerated : ~(script = U /\ IsExcluded(p)) }

\* The scan alone (checked under FairSpec): a call that raises does not end the
\* run; the run reaches its summary, and by then every file to process has been
\* processed exactly once.
ScanCompletes ==
  /\ <>Exited
  /\ [](\A p \in tree : visits[p] <= 1)
  /\ [](Exited => \A p \in tree : visits[p] = IF p \in ToProcess THEN 1 ELSE 0)

\* C4: a call that raises is caught and counted as an error and the scan goes
\* on: at the summary each file to process has been processed exactly once and
\* the error count is the number of calls that raised.
C4_FailureIsolation ==
  Exited =>
    /\ \A p \in tree : visits[p] = IF p \in ToProcess THEN 1 ELSE 0
    /\ counters.errors = Cardinality(failed)

\* a directory of the path bears an excluded name
UnderExcludedDir(path) ==
  \E k \in 1..(Len(path) - 1) :
    /\ path[k] \in EXCLUDED_PARTS
    /\ path[k + 1] = "/"
    /\ (k = 1 \/ path[k - 1] = "/")

\* C5: no run of either script opens a file under an excluded directory for
\* writing.
C5_ExcludedNeverWritten == \A p \in tree : UnderExcludedDir(p) => p \notin opened_w

\* C6: a content Variant A occurs in is rewritten to one that holds the
\* replacement header exactly once and Variant A nowhere.
C6_VariantAReplacedOnce ==
  (FirstRunDone /\ HasVariantA(Before)) =>
    (Occurrences(After, Replacement) = 1 /\ ~HasVariantA(After))

\* C7: update_file, when Variant A does not match and some closed block comment
\* holds the word copyright in any letter case, replaces one such block and
\* nothing else: what comes before its opener and what comes after its first
\* close stays.  (Stated in its weakest reading: the white space that follows
\* the close may go with the block.)
C7_ExactlyThatBlock ==
  (FirstRunDone /\ script = U /\ Search("AGPL_PATTERN", Before, 1) = 0
     /\ CopyrightBlocks(Before) # {}) =>
    \E b \in CopyrightBlocks(Before) :
      \E e \in (CloseOf(Before, b) + 2)..SkipWs(Before, CloseOf(Before, b) + 2) :
        After = SubSeq(Before, 1, b - 1) \o NEW_HEADER \o NLNL
                  \o SubSeq(Before, e, Len(Before))

\* no header in s: no matcher fires and, for process_file, no copyright word
\* lies in the first WINDOW characters
NoHeader(s) == ~MatcherFires(s) /\ (script = P => ~CopyrightInWindow(s))

\* C8: a content with no header whose first line is the marker, with content
\* after it, is rewritten to the marker line, a blank line, the replacement
\* header, a blank line, and the rest, under both scripts.
C8_MarkerStaysFirst ==
  (FirstRunDone /\ NoHeader(Before) /\ Len(Before) > 2
     /\ Before[1] = USE_CLIENT /\ Before[2] = "\n") =>
    After = << USE_CLIENT >> \o NLNL \o Replacement \o NLNL
              \o SubSeq(Before, 3, Len(Before))

\* C9 as claimed: a content no header matcher fires on and that does not start
\* with the marker is rewritten to the replacement header, a blank line, and
\* the content.
C9_PrependedVerbatim ==
  (FirstRunDone /\ ~MatcherFires(Before) /\ ~StartsWithMarker(Before)) =>
    After = Replacement \o NLNL \o Before

\* C9 as amended: the same, for process_file only when neither 'Copyright' nor
\* 'copyright' occurs in the first 1000 characters of the content.
C9_PrependedUnlessCopyright ==
  (FirstRunDone /\ ~MatcherFires(Before) /\ ~StartsWithMarker(Before)
     /\ (script = P => ~CopyrightInWindow(Before))) =>
    After = Replacement \o NLNL \o Before

C9_Witness ==
  /\ FirstRunDone
  /\ script = P
  /\ ~MatcherFires(Before) /\ ~StartsWithMarker(Before) /\ ~CopyrightInWindow(Before)
  /\ \E k \in 1..Len(Before) : Before[k] = "Copyright"
  /\ After = NEW_AGPL_HEADER \o NLNL \o Before

\* C10: a processed file holds the content it had or the whole of the content
\* computed for it, and the content it had when its call raised.
C10_NoPartialWrites ==
  \A p \in tree :
    visits[p] > 0 =>
      /\ fs[p] = orig[p] \/ (p \in DOMAIN computed /\ fs[p] = computed[p])
      /\ p \in failed => fs[p] = orig[p]
====
